---- MODULE Spec2Model ----
(***************************************************************************)
(* Firmware update pipeline of system76driver/firmware.py:                 *)
(* signed pointer -> hashed manifest -> hashed archives -> staging ->      *)
(* version gate -> confirmation -> boot-partition install -> next boot.    *)
(*                                                                         *)
(* Byte strings are the numbers 0..MaxBlob (0 is the empty byte string),   *)
(* file names in the cache are digests 0..HashMod-1, and each update       *)
(* attempt is a process that walks _run_firmware_updater step by step.     *)
(***************************************************************************)
EXTENDS Integers, Sequences, FiniteSets, TLC

\* ---------------------------------------------------------------- bounds
\* Byte strings the origin can serve: 0..MaxBlob.
MaxBlob == 5
\* Installed and target versions are drawn from strings over digits 1..MaxDigit.
MaxDigit == 2
\* Changelogs handed to the version gate on its own have 0..MaxEntries entries.
MaxEntries == 2

\* ------------------------------------------------------------- byte strings
Blobs == 0..MaxBlob
\* b"" : what open(p, 'wb') leaves before anything is written.
EmptyBlob == 0
\* The return value None, and a path where no file exists.
None == MaxBlob + 1
NoFile == MaxBlob + 2

\* hashlib.sha384(data).hexdigest(): a toy digest, injective on Blobs, whose
\* range is a strict subset of the names a caller may ask for.
HashMod == 7
Names == 0..(HashMod - 1)
sha384(b) == (3 * b + 2) % HashMod

\* What the bytes are, by content.
ManifestBlob == 1
FirmwareBlob == 2
UpdaterBlob == 3
BareJsonBlob == 4
TraversalBlob == 5

\* Keys of the manifest's "files" table.
FirmwareKey == "model_project.tar.xz"
UpdaterKey == "system76-firmware-update.tar.xz"
TraversalKey == "crafted_project.tar.xz"
FirmwareIds == {FirmwareKey, TraversalKey, "other_project.tar.xz"}

\* json.loads(bytes.decode('utf-8')): the parsed value, or JSONDecodeError
\* when the bytes are not JSON.
JSONDecodeError == [error |-> "JSONDecodeError"]
json_loads(b) ==
    CASE b = ManifestBlob ->
           [files |-> [k \in {FirmwareKey, TraversalKey, UpdaterKey} |->
                          CASE k = FirmwareKey -> sha384(FirmwareBlob)
                            [] k = TraversalKey -> sha384(TraversalBlob)
                            [] OTHER -> sha384(UpdaterBlob)]]
      [] b = BareJsonBlob -> [other |-> "value"]
      [] OTHER -> JSONDecodeError

\* tarfile.open(fileobj=io.BytesIO(bytes)) succeeds on archives only.
IsTar(b) == b \in {FirmwareBlob, UpdaterBlob, TraversalBlob}

\* The archive has a member whose name leads out of the directory it is
\* extracted to ("../x", "/x").
Escapes(b) == b = TraversalBlob

\* ------------------------------------------------------------- signatures
\* A signed message carries the key that signed it and the payload (the
\* name of the manifest). verify_key.verify returns the payload when the
\* signer is the pinned key and raises BadSignatureError otherwise.
PinnedKey == "pinned"
Keys == {PinnedKey, "other"}
PointerPayloads == {sha384(ManifestBlob), sha384(BareJsonBlob)}
SignedFiles == [signer : Keys, payload : PointerPayloads]
NoResponse == [none |-> TRUE]
\* A verification that accepts a well-formed signature by any key.
verifyAnyKey(s) == s.signer \in Keys
verify(s) == s.signer = PinnedKey

\* ------------------------------------------------------------- versions
\* Version strings are sequences of digits; <<>> is the absent / empty one.
Digits == 1..MaxDigit
Installed == {<<d>> : d \in Digits}
Absent == <<>>

\* The changelog.json packed in the firmware archive, newest entry first.
ChangelogOf(b) ==
    IF b = FirmwareBlob
    THEN << [bios |-> <<2>>, ec |-> <<2>>, description |-> "A"],
            [bios |-> <<1>>, ec |-> <<1>>, description |-> "B"] >>
    ELSE << >>

\* Python's str comparison: lexicographic, a proper prefix is smaller.
RECURSIVE StrLT(_, _)
StrLT(a, b) ==
    IF b = << >> THEN FALSE
    ELSE IF a = << >> THEN TRUE
    ELSE IF Head(a) # Head(b) THEN Head(a) < Head(b)
    ELSE StrLT(Tail(a), Tail(b))

StrGE(a, b) == ~StrLT(a, b)

\* A value Python treats as true in a condition ("" and None are false).
Truthy(v) == v # Absent

\* A comparison that takes a missing target for a difference.
needs_updateOnAbsent(new_bios_version, new_ec_version, bios, ec) ==
    new_bios_version # bios \/ new_ec_version # ec

\* needs_update(new_bios_version, new_ec_version), with the installed
\* versions get_bios_version() and get_ec_version() would return.
needs_update(new_bios_version, new_ec_version, bios, ec) ==
    IF Truthy(new_bios_version) /\ new_bios_version # bios THEN TRUE
    ELSE IF Truthy(new_ec_version) /\ new_ec_version # ec THEN TRUE
    ELSE FALSE

\* The ec2 target of an entry that has one ('ec2' in entry and entry['ec2']).
HasEc2(entry) == "ec2" \in DOMAIN entry /\ Truthy(entry.ec2)

\* The loop of get_changes_list over entries[i..]: current holds the
\* installed versions, found the three flags.
RECURSIVE ChangesWalk(_, _, _, _, _)
ChangesWalk(entries, i, current, found, changes_list) ==
    IF i > Len(entries) THEN changes_list
    ELSE
      LET entry == entries[i]
          fb == found.bios \/ (Truthy(entry.bios) /\ Truthy(current.bios)
                                /\ StrGE(current.bios, entry.bios))
          fe == found.ec \/ (Truthy(entry.ec) /\ Truthy(current.ec)
                              /\ StrGE(current.ec, entry.ec))
          f2 == IF HasEc2(entry) /\ Truthy(current.ec2)
                THEN found.ec2 \/ StrGE(current.ec2, entry.ec2)
                ELSE IF ~Truthy(current.ec2) THEN TRUE ELSE found.ec2
      IN IF ~(fb /\ fe /\ f2)
         THEN ChangesWalk(entries, i + 1, current,
                          [bios |-> fb, ec |-> fe, ec2 |-> f2],
                          Append(changes_list, entry.description))
         ELSE changes_list

NoChanges == << "No Changes" >>

\* The walk without the sentinel for an empty result.
get_changes_listBare(changelog_entries, current_bios, current_ec, current_ec2) ==
    ChangesWalk(changelog_entries, 1,
                [bios |-> current_bios, ec |-> current_ec, ec2 |-> current_ec2],
                [bios |-> FALSE, ec |-> FALSE, ec2 |-> ~Truthy(current_ec2)],
                << >>)

get_changes_list(changelog_entries, current_bios, current_ec, current_ec2) ==
    LET changes_list ==
          ChangesWalk(changelog_entries, 1,
                      [bios |-> current_bios, ec |-> current_ec,
                       ec2 |-> current_ec2],
                      [bios |-> FALSE, ec |-> FALSE,
                       ec2 |-> ~Truthy(current_ec2)],
                      << >>)
    IN IF changes_list = << >> THEN NoChanges ELSE changes_list

\* ------------------------------------------------------------- exceptions
\* Classes derived from Exception; KeyboardInterrupt and SystemExit are not.
ExceptionSubclasses ==
    {"Exception", "BadSignatureError", "TypeError", "AttributeError",
     "KeyError", "ReadError", "OSError", "CalledProcessError",
     "UnboundLocalError"}

\* A handler written for file-system errors only.
CatchesOSError(e) == e = "OSError"

\* run_firmware_updater: "except Exception" catches e.
Catches(e) == e \in ExceptionSubclasses

\* tempfile.mkdtemp() in place of the context manager: nothing is removed.
CleanupNever(tempdir) == tempdir

\* tempfile.TemporaryDirectory().__exit__: the directory, if one was made,
\* is removed on every way out of the with block.
Cleanup(tempdir) == IF tempdir = "none" THEN "none" ELSE "removed"

\* ------------------------------------------------------------------ state
Procs == {"a1", "a2"}

VARIABLES
    proc,       \* per update attempt: the locals of _run_firmware_updater,
                \* its trace, and the cache, boot path and BootNext it found
    cache,      \* CACHE_PATH: file name -> content, NoFile where none exists
    boot,       \* /boot/efi/system76-firmware-update
    nextboot,   \* the EFI BootNext entry written by FIRMWARE_SET_NEXT_BOOT
    gate        \* a call of needs_update / get_changes_list on its own:
                \* the arguments and the values returned

vars == << proc, cache, boot, nextboot, gate >>

\* No call of the version gate on its own is under way.
GateIdle ==
    [entries |-> << >>, bios |-> Absent, ec |-> Absent, ec2 |-> Absent,
     needs |-> "unset", listed |-> FALSE, changes_list |-> << >>]

Unset == [unset |-> TRUE]

IdleProc ==
    [pc |-> "idle", site |-> "", want |-> 0, data |-> None,
     signed_file |-> NoResponse, manifest |-> Unset, firmware_id |-> "",
     firmware |-> None, updater |-> None, tempdir |-> "none",
     changelog |-> << >>, bios |-> Absent, ec |-> Absent, needs |-> "unset",
     changes_list |-> << >>, confirm |-> "unset", sched |-> "unset",
     hist |-> << >>, exc |-> "", outcome |-> "none", outside |-> FALSE,
     torn |-> FALSE,
     cache0 |-> [n \in Names |-> NoFile], boot0 |-> "absent",
     nextboot0 |-> "unset"]

BootStates == {"absent", "old", "new", "partly_removed", "partly_copied"}

Init ==
    /\ proc = [p \in Procs |-> IdleProc]
    /\ cache = [n \in Names |-> NoFile]
    /\ boot \in {"absent", "old"}
    /\ nextboot = "unset"
    /\ gate = GateIdle

\* proc[p] becomes r; a step of the pipeline makes no call of its own on
\* the version gate.
Set(p, r) ==
    /\ proc' = [proc EXCEPT ![p] = r]
    /\ gate' = gate

\* The attempt's trace: what it did, in order, and for which file.
Log(r, event) == [r EXCEPT !.hist = Append(@, << event, "" >>)]
LogSite(r, event) == [r EXCEPT !.hist = Append(@, << event, r.site >>)]

\* An exception e leaves _run_firmware_updater: the with block, if entered,
\* cleans up, and run_firmware_updater logs it and returns, or lets it go.
Unwind(r, e) ==
    [r EXCEPT !.pc = "done", !.exc = e, !.tempdir = Cleanup(@),
              !.outcome = IF Catches(e) THEN "failed" ELSE "raised"]

\* SignedManifest() raised e: _run_firmware_updater logs and returns.
AbortManifest(r, e) ==
    [r EXCEPT !.pc = "done", !.exc = e, !.outcome = "failed"]

\* A return from _run_firmware_updater inside the with block.
Return(r, outcome) ==
    [r EXCEPT !.pc = "done", !.tempdir = Cleanup(@), !.outcome = outcome]

\* An exception e raised inside get_hashed_file: SignedManifest.__init__
\* swallows it and leaves self.manifest unset; HashedTarball lets it go.
RaiseInHashedFile(r, e) ==
    IF r.site = "manifest"
    THEN LogSite([r EXCEPT !.pc = "get_firmware_id", !.data = None], e)
    ELSE Unwind(LogSite(r, e), e)

\* ---------------------------------------------------------------- actions
\* A run_firmware_updater that waits for a lock every attempt holds from
\* start to end.
StartExclusive(p) ==
    /\ \A q \in Procs : proc[q].pc = "idle"
    /\ Set(p, [IdleProc EXCEPT !.pc = "get_signed_file", !.outcome = "running",
                               !.cache0 = cache, !.boot0 = boot,
                               !.nextboot0 = nextboot,
                               !.torn = proc[p].torn])
    /\ UNCHANGED << cache, boot, nextboot >>

\* run_firmware_updater is called: nothing is waited for. (torn is a
\* history of the process, not of the attempt: it has read a cache file that
\* another attempt had created and not yet written.)
Start(p) ==
    /\ proc[p].pc = "idle"
    /\ Set(p, [IdleProc EXCEPT !.pc = "get_signed_file", !.outcome = "running",
                               !.cache0 = cache, !.boot0 = boot,
                               !.nextboot0 = nextboot,
                               !.torn = proc[p].torn])
    /\ UNCHANGED << cache, boot, nextboot >>

\* One attempt at a time: the pipeline as the specification describes it.
StartSolo(p) ==
    /\ \A q \in Procs : proc[q].pc = "idle"
    /\ Start(p)

\* A get_signed_file that takes the pointer from the cache directory.
FetchSignedCached(p) ==
    /\ proc[p].pc = "get_signed_file"
    /\ \E stored \in SignedFiles :
          Set(p, Log([proc[p] EXCEPT !.pc = "verify", !.signed_file = stored],
                     "cache_hit"))
    /\ UNCHANGED << cache, boot, nextboot >>

\* get_signed_file: get_file(filename) without cache; None on any failure.
FetchSigned(p) ==
    /\ proc[p].pc = "get_signed_file"
    /\ \E response \in SignedFiles \cup {NoResponse} :
          Set(p, Log([proc[p] EXCEPT !.pc = "verify", !.signed_file = response],
                     "net_pointer"))
    /\ UNCHANGED << cache, boot, nextboot >>

\* get_signed_file's verification, SignedManifest.__init__ up to the call of
\* get_hashed_file, and the handler of _run_firmware_updater.
VerifySigned(p) ==
    LET r == proc[p] IN
    /\ r.pc = "verify"
    /\ IF r.signed_file = NoResponse
       THEN Set(p, AbortManifest(r, "Exception"))
       ELSE IF ~verify(r.signed_file)
       THEN Set(p, AbortManifest(r, "BadSignatureError"))
       ELSE Set(p, Log([r EXCEPT !.pc = "get_file", !.site = "manifest",
                                 !.want = r.signed_file.payload], "verified"))
    /\ UNCHANGED << cache, boot, nextboot >>

\* Another attempt has opened the cache file n for writing and has not yet
\* written it.
BeingWritten(p, n) ==
    \E q \in Procs \ {p} : proc[q].pc = "write" /\ proc[q].want = n

\* A get_file that goes to the origin whatever the cache directory holds.
GetFileUncached(p) ==
    /\ proc[p].pc = "get_file"
    /\ Set(p, [proc[p] EXCEPT !.pc = "fetch"])
    /\ UNCHANGED << cache, boot, nextboot >>

\* get_file(filename, CACHE_PATH): a file of that name is read and returned.
GetFileCached(p) ==
    LET r == proc[p] IN
    /\ r.pc = "get_file"
    /\ IF cache[r.want] # NoFile
       THEN Set(p, LogSite([r EXCEPT !.pc = "check", !.data = cache[r.want],
                                    !.torn = @ \/ BeingWritten(p, r.want)],
                           "cache_hit"))
       ELSE Set(p, [r EXCEPT !.pc = "fetch"])
    /\ UNCHANGED << cache, boot, nextboot >>

\* get_file(filename) on a miss: the origin's bytes, or None on any failure.
GetFileFetch(p) ==
    /\ proc[p].pc = "fetch"
    /\ \E response \in Blobs \cup {None} :
          Set(p, LogSite([proc[p] EXCEPT !.pc = "open", !.data = response],
                         "net_hashed"))
    /\ UNCHANGED << cache, boot, nextboot >>

\* f = open(p, 'wb'): the cache file exists from here on, empty.
GetFileOpen(p) ==
    /\ proc[p].pc = "open"
    /\ cache' = [cache EXCEPT ![proc[p].want] = EmptyBlob]
    /\ Set(p, LogSite([proc[p] EXCEPT !.pc = "write"], "cache_open"))
    /\ UNCHANGED << boot, nextboot >>

\* f.write(data); f.close(); return data.  f.write(None) is a TypeError.
GetFileWrite(p) ==
    LET r == proc[p] IN
    /\ r.pc = "write"
    /\ IF r.data = None
       THEN /\ Set(p, RaiseInHashedFile(r, "TypeError"))
            /\ UNCHANGED cache
       ELSE /\ cache' = [cache EXCEPT ![r.want] = r.data]
            /\ Set(p, [r EXCEPT !.pc = "check"])
    /\ UNCHANGED << boot, nextboot >>

\* A get_hashed_file that hands back whatever get_file gave it.
DigestUnchecked(filename, hashed_file) == TRUE

\* get_hashed_file: filename == hashlib.sha384(hashed_file).hexdigest()
DigestMatches(filename, hashed_file) == filename = sha384(hashed_file)

\* get_hashed_file after get_file returned: the bytes go back to the caller
\* when the digest matches, "raise Exception" otherwise.
CheckDigest(p) ==
    LET r == proc[p] IN
    /\ r.pc = "check"
    /\ IF DigestMatches(r.want, r.data)
       THEN Set(p, LogSite([r EXCEPT !.pc = "returned"], "digest_ok"))
       ELSE Set(p, RaiseInHashedFile(r, "Exception"))
    /\ UNCHANGED << cache, boot, nextboot >>

\* SignedManifest.__init__: self.manifest = json.loads(...); a failure to
\* parse is logged and swallowed like any other.
LoadManifest(p) ==
    LET r == proc[p] IN
    /\ r.pc = "returned" /\ r.site = "manifest"
    /\ IF json_loads(r.data) = JSONDecodeError
       THEN Set(p, LogSite([r EXCEPT !.pc = "get_firmware_id"],
                           "JSONDecodeError"))
       ELSE Set(p, [r EXCEPT !.pc = "get_firmware_id",
                             !.manifest = json_loads(r.data)])
    /\ UNCHANGED << cache, boot, nextboot >>

\* get_firmware_id(): reads the product version and asks the embedded
\* controller for its project; either may fail.
GetFirmwareId(p) ==
    LET r == proc[p] IN
    /\ r.pc = "get_firmware_id"
    /\ \/ \E id \in FirmwareIds :
            Set(p, Log([r EXCEPT !.pc = "lookup_firmware", !.firmware_id = id],
                       "firmware_id"))
       \/ Set(p, Unwind(Log(r, "firmware_id"), "OSError"))
    /\ UNCHANGED << cache, boot, nextboot >>

\* manifest.lookup(filename): self.manifest["files"][filename], and the
\* exception it raises when there is none ("" when there is one).
LookupError(manifest, filename) ==
    IF manifest = Unset THEN "AttributeError"
    ELSE IF "files" \notin DOMAIN manifest THEN "KeyError"
    ELSE IF filename \notin DOMAIN manifest.files THEN "KeyError"
    ELSE ""

Lookup(p, at, filename, site) ==
    LET r == proc[p] IN
    /\ r.pc = at
    /\ IF LookupError(r.manifest, filename) # ""
       THEN Set(p, Unwind(r, LookupError(r.manifest, filename)))
       ELSE Set(p, [r EXCEPT !.pc = "get_file", !.site = site, !.data = None,
                             !.want = r.manifest.files[filename]])
    /\ UNCHANGED << cache, boot, nextboot >>

\* firmware = HashedTarball(manifest.lookup(get_firmware_id() + '.tar.xz'))
LookupFirmware(p) == Lookup(p, "lookup_firmware", proc[p].firmware_id, "firmware")

\* updater = HashedTarball(manifest.lookup('system76-firmware-update.tar.xz'))
LookupUpdater(p) == Lookup(p, "lookup_updater", UpdaterKey, "updater")

\* HashedTarball.__init__: tarfile.open on the verified bytes.
OpenTarball(p) ==
    LET r == proc[p] IN
    /\ r.pc = "returned" /\ r.site \in {"firmware", "updater"}
    /\ IF ~IsTar(r.data)
       THEN Set(p, Unwind(r, "ReadError"))
       ELSE IF r.site = "firmware"
       THEN Set(p, [r EXCEPT !.pc = "lookup_updater", !.firmware = r.data])
       ELSE Set(p, [r EXCEPT !.pc = "mkdtemp", !.updater = r.data])
    /\ UNCHANGED << cache, boot, nextboot >>

\* with tempfile.TemporaryDirectory() as tempdirname
MakeTempDir(p) ==
    /\ proc[p].pc = "mkdtemp"
    /\ Set(p, [proc[p] EXCEPT !.pc = "extract_updater", !.tempdir = "created"])
    /\ UNCHANGED << cache, boot, nextboot >>

\* Tarball.extract(directory): chmod, extractall, chmod; any of them may
\* fail on the file system. extractall writes every member where its name
\* says, inside the directory or not.
Extract(p, at, next, tree, event, tar) ==
    LET r == proc[p] IN
    /\ r.pc = at
    /\ \/ Set(p, Log([r EXCEPT !.pc = next, !.tempdir = tree,
                                !.outside = @ \/ Escapes(tar)], event))
       \/ Set(p, Unwind(r, "OSError"))
    /\ UNCHANGED << cache, boot, nextboot >>

\* updater.extract(tempdirname)
ExtractUpdater(p) ==
    Extract(p, "extract_updater", "extract_firmware", "updater",
            "updater_extracted", proc[p].updater)

\* os.mkdir(tempdirname/firmware); firmware.extract(tempdirname/firmware)
ExtractFirmware(p) ==
    Extract(p, "extract_firmware", "changelog", "full", "firmware_extracted",
            proc[p].firmware)

\* open(tempdirname/firmware/changelog.json); json.load(f): fails when the
\* archive packed no changelog, or on the file system.
ReadChangelog(p) ==
    LET r == proc[p] IN
    /\ r.pc = "changelog"
    /\ \/ IF ChangelogOf(r.firmware) = << >>
          THEN Set(p, Unwind(r, "OSError"))
          ELSE Set(p, [r EXCEPT !.pc = "needs_update",
                                !.changelog = ChangelogOf(r.firmware)])
       \/ Set(p, Unwind(r, "OSError"))
    /\ UNCHANGED << cache, boot, nextboot >>

\* The gate without its return: the update is offered either way.
GateFallsThrough(r, needs) ==
    Log([r EXCEPT !.pc = "changes"], "needs_update")

\* if not needs_update(...): log.info('No new firmware to install.'); return
Gate(r, needs) ==
    IF ~needs
    THEN Return(r, "no-update")
    ELSE Log([r EXCEPT !.pc = "changes"], "needs_update")

\* needs_update(changelog['versions'][0]['bios'], ...['ec']) with the
\* versions the machine reports; "No new firmware to install." and return
\* when it is false.
NeedsUpdate(p) ==
    LET r == proc[p] IN
    /\ r.pc = "needs_update"
    /\ \/ \E bios \in Installed, ec \in Installed :
            LET needs == needs_update(r.changelog[1].bios, r.changelog[1].ec,
                                      bios, ec)
                r1 == [r EXCEPT !.bios = bios, !.ec = ec,
                                !.needs = IF needs THEN "yes" ELSE "no"]
            IN Set(p, Gate(r1, needs))
       \/ Set(p, Unwind(r, "OSError"))
    /\ UNCHANGED << cache, boot, nextboot >>

\* changes_list = get_changes_list(changelog['versions'],
\*                                 get_bios_version(), get_ec_version())
GetChangesList(p) ==
    LET r == proc[p] IN
    /\ r.pc = "changes"
    /\ Set(p, [r EXCEPT !.pc = "confirm",
                        !.changes_list =
                            get_changes_list(r.changelog, r.bios, r.ec, Absent)])
    /\ UNCHANGED << cache, boot, nextboot >>

\* What confirm_dialog can hand back: the dialog's exit status, or None
\* when no user or display was found.
ConfirmResults == {"0", "1", "None"}

\* A branch that installs on anything but an explicit refusal.
AcceptedUnlessRefused(result) == result # "1"

\* confirm_dialog(changes_list) == 0
Accepted(result) == result = "0"

\* The confirmation call and the branch on its result; the helper commands
\* it runs may fail (CalledProcessError) before any dialog is shown.
ConfirmDialog(p) ==
    LET r == proc[p] IN
    /\ r.pc = "confirm"
    /\ \/ \E result \in ConfirmResults :
            LET r1 == Log([r EXCEPT !.confirm = result], "confirm")
            IN IF Accepted(result)
               THEN Set(p, [r1 EXCEPT !.pc = "rmtree"])
               ELSE Set(p, Return(r1, "declined"))
       \/ Set(p, Unwind(Log(r, "confirm"), "CalledProcessError"))
    /\ UNCHANGED << cache, boot, nextboot >>

\* shutil.rmtree(path): what can be left of the tree.  With nothing there it
\* raises FileNotFoundError; otherwise it removes everything, or fails part
\* of the way, or fails before removing anything.
RmtreeResults(tree) ==
    IF tree = "absent" THEN {"absent"} ELSE {"absent", "partly_removed", tree}

\* try: shutil.rmtree('/boot/efi/system76-firmware-update') except: pass
RemoveOld(p) ==
    LET r == proc[p] IN
    /\ r.pc = "rmtree"
    /\ \E left \in RmtreeResults(boot) :
          /\ boot' = left
          /\ Set(p, Log([r EXCEPT !.pc = "copytree"], "rmtree"))
    /\ UNCHANGED << cache, nextboot >>

\* shutil.copytree(src, dst): dst must not exist (FileExistsError); else
\* the whole tree is copied, or the copy fails part of the way, or before
\* anything was created.
CopytreeResults(tree) ==
    IF tree = "absent" THEN {"new", "partly_copied", "absent"} ELSE {tree}

\* shutil.copytree(tempdirname, '/boot/efi/system76-firmware-update')
CopyTree(p) ==
    LET r == proc[p] IN
    /\ r.pc = "copytree"
    /\ \E result \in CopytreeResults(boot) :
          /\ boot' = result
          /\ IF boot = "absent" /\ result = "new"
             THEN Set(p, Log([r EXCEPT !.pc = "set_next_boot"], "copytree"))
             ELSE Set(p, Unwind(Log(r, "copytree"), "OSError"))
    /\ UNCHANGED << cache, nextboot >>

\* set_next_boot(): try: SubProcess.check_output(['sudo', name])
\* except: return.  What the caller gets to know of the script's status.
SchedulingError(status) == ""

\* set_next_boot() and the rest of _run_firmware_updater: the script runs
\* and exits with a status, or the temporary script cannot be written
\* (mkstemp, open, chmod are outside the try); then the with block ends and
\* "Installed firmware updater to boot partition. Firmware update will run
\* on next boot." is logged.
SetNextBoot(p) ==
    LET r == proc[p] IN
    /\ r.pc = "set_next_boot"
    /\ \/ \E status \in {"ok", "failed"} :
            LET r1 == Log([r EXCEPT !.sched = status], "set_next_boot")
            IN /\ nextboot' = IF status = "ok" THEN "scheduled" ELSE nextboot
               /\ IF SchedulingError(status) # ""
                  THEN Set(p, Unwind(r1, SchedulingError(status)))
                  ELSE Set(p, Return(r1, "committed"))
       \/ /\ Set(p, Unwind([r EXCEPT !.sched = "not_run"], "OSError"))
          /\ UNCHANGED nextboot
    /\ UNCHANGED << cache, boot >>

\* run_firmware_updater has returned; the next call starts afresh.
Finish(p) ==
    /\ proc[p].pc = "done"
    /\ Set(p, [IdleProc EXCEPT !.torn = proc[p].torn])
    /\ UNCHANGED << cache, boot, nextboot >>

Step(p) ==
    \/ FetchSigned(p) \/ VerifySigned(p)
    \/ GetFileCached(p) \/ GetFileFetch(p) \/ GetFileOpen(p) \/ GetFileWrite(p)
    \/ CheckDigest(p) \/ LoadManifest(p)
    \/ GetFirmwareId(p) \/ LookupFirmware(p) \/ LookupUpdater(p) \/ OpenTarball(p)
    \/ MakeTempDir(p) \/ ExtractUpdater(p) \/ ExtractFirmware(p)
    \/ ReadChangelog(p) \/ NeedsUpdate(p) \/ GetChangesList(p)
    \/ ConfirmDialog(p) \/ RemoveOld(p) \/ CopyTree(p) \/ SetNextBoot(p)
    \/ Finish(p)

Next == \E p \in Procs : StartSolo(p) \/ Step(p)

Spec == Init /\ [][Next]_vars

\* --------------------------------------------------- overlapping attempts
\* Two attempts started whenever, their steps interleaved. To keep the
\* interleavings apart from the faults, the environment is well behaved:
\* the origin serves the signed pointer and, for a digest, the bytes that
\* hash to it; the machine reports the firmware id the manifest lists; the
\* user accepts; and no call fails on the local system. An attempt can
\* still fail on what the other attempt did to the cache or the boot tree.
HonestPointer == [signer |-> PinnedKey, payload |-> sha384(ManifestBlob)]

\* The step p takes meets a well-behaved environment. Only an attempt that
\* failed is run again.
WellBehaved(p) ==
    LET r == proc'[p] IN
    /\ r.pc = "verify" => r.signed_file = HonestPointer
    /\ r.pc = "open" => (r.data \in Blobs /\ sha384(r.data) = r.want)
    /\ r.firmware_id \in {"", FirmwareKey}
    /\ r.bios \in {Absent, << 1 >>} /\ r.ec \in {Absent, << 1 >>}
    /\ r.confirm \in {"unset", "0"}
    /\ r.sched \in {"unset", "ok"}
    /\ r.exc \in {"", "Exception", "AttributeError", "OSError"}
    /\ r.exc = "OSError" => (proc[p].pc = "copytree" /\ boot' = boot)
    /\ proc[p].pc = "rmtree" => boot' = "absent"
    /\ (proc[p].pc = "copytree" /\ boot = "absent") => boot' = "new"
    /\ proc[p].pc = "done" => proc[p].outcome = "failed"

NextConc == \E p \in Procs : (Start(p) \/ Step(p)) /\ WellBehaved(p)

SpecConc == Init /\ [][NextConc]_vars

\* ------------------------------------------------- the version gate alone
\* needs_update and get_changes_list called on changelogs of up to
\* MaxEntries entries, with every combination of named and absent targets
\* and of installed and absent versions.
V201 == << 2, 0, 1 >>
V202 == << 2, 0, 2 >>
GateVersions == {Absent, V201, V202}
GateEc2Versions == {Absent, V201}

\* An entry's targets: bios and ec always keyed (possibly null), ec2 keyed
\* or not.
GateTargets ==
    [bios : GateVersions, ec : GateVersions]
      \cup [bios : GateVersions, ec : GateVersions, ec2 : GateEc2Versions \ {Absent}]

Description(i) == CASE i = 1 -> "A" [] i = 2 -> "B" [] OTHER -> "C"

Changelogs ==
    UNION { { [i \in 1..n |-> t[i] @@ [description |-> Description(i)]] :
                t \in [1..n -> GateTargets] } : n \in 0..MaxEntries }

InitGate ==
    /\ proc = [p \in Procs |-> IdleProc]
    /\ cache = [n \in Names |-> NoFile]
    /\ boot = "absent"
    /\ nextboot = "unset"
    /\ \E entries \in Changelogs, bios \in GateVersions, ec \in GateVersions,
          ec2 \in GateEc2Versions :
          gate = [GateIdle EXCEPT !.entries = entries, !.bios = bios,
                                  !.ec = ec, !.ec2 = ec2]

\* needs_update(entries[0]['bios'], entries[0]['ec'])
CallNeedsUpdate ==
    /\ gate.needs = "unset"
    /\ gate.entries # << >>
    /\ gate' = [gate EXCEPT !.needs =
                   IF needs_update(gate.entries[1].bios, gate.entries[1].ec,
                                   gate.bios, gate.ec)
                   THEN "yes" ELSE "no"]
    /\ UNCHANGED << proc, cache, boot, nextboot >>

\* get_changes_list(entries, bios, ec, ec2)
CallGetChangesList ==
    /\ ~gate.listed
    /\ gate' = [gate EXCEPT !.listed = TRUE, !.changes_list =
                   get_changes_list(gate.entries, gate.bios, gate.ec, gate.ec2)]
    /\ UNCHANGED << proc, cache, boot, nextboot >>

NextGate == CallNeedsUpdate \/ CallGetChangesList

SpecGate == InitGate /\ [][NextGate]_vars

\* ------------------------------------------------------ reading the trace
Events(r) == {r.hist[i] : i \in DOMAIN r.hist}
Did(r, event) == << event, "" >> \in Events(r)
DidAt(r, event, site) == << event, site >> \in Events(r)

\* Position of the first occurrence of an event in the trace, 0 if none.
Pos(r, e) ==
    IF e \in Events(r)
    THEN CHOOSE i \in DOMAIN r.hist :
            r.hist[i] = e /\ \A j \in DOMAIN r.hist : r.hist[j] = e => i <= j
    ELSE 0

\* Event a happened, and before the first b.
Before(r, a, b) == Pos(r, a) > 0 /\ Pos(r, a) < Pos(r, b)

\* The attempt has called rmtree or copytree on the boot-partition path.
TouchedBoot(r) == Did(r, "rmtree") \/ Did(r, "copytree")

\* The first of those calls.
FirstTouch(r) == IF Did(r, "rmtree") THEN << "rmtree", "" >> ELSE << "copytree", "" >>

Terminated(r) == r.pc = "done"

\* ----------------------------------------------------------------- claims

\* C1: an attempt calls rmtree or copytree on the boot-partition path only
\* after, in that attempt and in this order, the pointer verified against
\* the pinned key, the manifest bytes matched the signed digest, both
\* archives matched their manifest digests and were extracted, needs_update
\* was true and the confirmation returned 0.
C1_BootOnlyAfterFullChain ==
    \A p \in Procs :
      LET r == proc[p] IN
      TouchedBoot(r) =>
        /\ r.signed_file # NoResponse
        /\ r.signed_file.signer = PinnedKey
        /\ \E b \in Blobs : /\ sha384(b) = r.signed_file.payload
                            /\ json_loads(b) = r.manifest
        /\ "files" \in DOMAIN r.manifest
        /\ r.firmware_id \in DOMAIN r.manifest.files
        /\ r.firmware \in Blobs
        /\ sha384(r.firmware) = r.manifest.files[r.firmware_id]
        /\ r.updater \in Blobs
        /\ sha384(r.updater) = r.manifest.files[UpdaterKey]
        /\ r.needs = "yes"
        /\ (r.changelog[1].bios # r.bios \/ r.changelog[1].ec # r.ec)
        /\ r.confirm = "0"
        /\ Before(r, << "verified", "" >>, << "digest_ok", "manifest" >>)
        /\ Before(r, << "digest_ok", "manifest" >>, << "digest_ok", "firmware" >>)
        /\ Before(r, << "digest_ok", "manifest" >>, << "digest_ok", "updater" >>)
        /\ \A site \in {"firmware", "updater"} :
             \A x \in {"updater_extracted", "firmware_extracted"} :
                Before(r, << "digest_ok", site >>, << x, "" >>)
        /\ Before(r, << "updater_extracted", "" >>, << "needs_update", "" >>)
        /\ Before(r, << "firmware_extracted", "" >>, << "needs_update", "" >>)
        /\ Before(r, << "needs_update", "" >>, << "confirm", "" >>)
        /\ Before(r, << "confirm", "" >>, FirstTouch(r))

\* C1 witness: an attempt has copied the staging tree to the boot partition.
C1_Witness ==
    \E p \in Procs :
      /\ proc[p].pc = "set_next_boot"
      /\ Did(proc[p], "copytree")
      /\ boot = "new"

\* No get_file call is under way in any attempt.
NoFetchUnderWay == \A p \in Procs : proc[p].pc \notin {"fetch", "open", "write", "check"}

\* C2 (as claimed): once the get_hashed_file calls made so far have ended,
\* every file in the cache directory has content whose digest is its name.
C2_CacheContentAddressed ==
    NoFetchUnderWay =>
      \A n \in Names : cache[n] # NoFile => sha384(cache[n]) = n

\* C3: get_hashed_file hands bytes to its caller only if their digest is
\* the requested name, from the network or from a cache file alike; on a
\* mismatch it raises ("Exception" is the last thing in the trace) and the
\* caller's manifest and archives stay as they were.
C3_ReturnsOnlyMatching ==
    [][\A p \in Procs :
         LET r == proc[p]
             n == proc'[p]
         IN /\ n.pc = "returned" =>
                 n.data \in Blobs /\ sha384(n.data) = n.want
            /\ (r.pc = "check" /\ n # r /\ sha384(r.data) # r.want) =>
                 /\ n.pc # "returned"
                 /\ n.hist[Len(n.hist)] = << "Exception", r.site >>
                 /\ n.manifest = r.manifest
                 /\ n.firmware = r.firmware
                 /\ n.updater = r.updater
      ]_vars

\* C3 witness: a cache file whose content does not match its name was read
\* and rejected.
C3_Witness ==
    \E p \in Procs :
      LET h == proc[p].hist IN
      /\ Len(h) >= 2
      /\ h[Len(h)] = << "Exception", "firmware" >>
      /\ h[Len(h) - 1] = << "cache_hit", "firmware" >>

\* The signed pointer an attempt fetched does not verify against the key.
BadPointer(r) == r.signed_file # NoResponse /\ r.signed_file.signer # PinnedKey

\* C4: when the pointer does not verify against the pinned key the attempt
\* does nothing but fetch it, ends failed with BadSignatureError, and the
\* cache directory and the boot path are as the attempt found them.
C4_BadSignatureTouchesNothing ==
    \A p \in Procs :
      LET r == proc[p] IN
      BadPointer(r) =>
        /\ r.pc \in {"verify", "done"}
        /\ Terminated(r) => r.outcome = "failed" /\ r.exc = "BadSignatureError"
        /\ r.hist = << << "net_pointer", "" >> >>
        /\ cache = r.cache0
        /\ boot = r.boot0
        /\ nextboot = r.nextboot0

\* C4 witness: an attempt ended on a pointer signed with another key, with
\* files in the cache and an updater on the boot partition.
C4_Witness ==
    \E p \in Procs :
      /\ BadPointer(proc[p])
      /\ Terminated(proc[p])
      /\ \E n \in Names : cache[n] # NoFile
      /\ boot # "absent"

\* C5 (as claimed): an attempt whose next-boot script failed is not
\* reported as committed.
C5_SchedulingFailureIsFailure ==
    \A p \in Procs :
      proc[p].sched \in {"failed", "not_run"} => proc[p].outcome # "committed"

\* The attempt failed while committing: after its first rmtree or copytree.
FailedCommitting(r) == Terminated(r) /\ r.outcome = "failed" /\ TouchedBoot(r)

\* C6 (as claimed): after a failure during the commit the boot path holds
\* the complete previous install or the complete new one.
C6_CommitAllOrNothing ==
    \A p \in Procs :
      FailedCommitting(proc[p]) => boot \in {proc[p].boot0, "new"}

\* C7: run_firmware_updater returns normally whatever was raised: no
\* attempt ends with an exception leaving it.
C7_NoExceptionEscapes ==
    \A p \in Procs :
      /\ proc[p].outcome # "raised"
      /\ Terminated(proc[p]) =>
            proc[p].outcome \in {"failed", "no-update", "declined", "committed"}

\* C7 witness: an exception that left _run_firmware_updater (the missing
\* manifest attribute) was caught by run_firmware_updater.
C7_Witness ==
    \E p \in Procs :
      /\ Terminated(proc[p])
      /\ proc[p].exc = "AttributeError"
      /\ proc[p].outcome = "failed"

\* C8: when the confirmation yields anything but 0 the attempt ends as
\* declined, has made no call on the boot path or the next-boot script,
\* and both are as the attempt found them.
C8_DeclineTouchesNothing ==
    \A p \in Procs :
      LET r == proc[p] IN
      r.confirm \in ConfirmResults \ {"0"} =>
        /\ Terminated(r) /\ r.outcome = "declined"
        /\ ~TouchedBoot(r)
        /\ ~Did(r, "set_next_boot") /\ r.sched = "unset"
        /\ boot = r.boot0
        /\ nextboot = r.nextboot0

\* C8 witness: the dialog was refused after a full verified download that
\* needed an update, with an updater installed on the boot partition.
C8_Witness ==
    \E p \in Procs :
      /\ proc[p].confirm = "1"
      /\ proc[p].needs = "yes"
      /\ boot = "old"

\* C9: at every end of an attempt the staging directory it made is gone.
C9_StagingGoneAtEnd ==
    \A p \in Procs :
      Terminated(proc[p]) => proc[p].tempdir \in {"none", "removed"}

\* C9 witness: an attempt failed in the commit, after staging was filled,
\* and its staging directory has been removed.
C9_Witness ==
    \E p \in Procs :
      /\ FailedCommitting(proc[p])
      /\ proc[p].tempdir = "removed"

\* C10: when needs_update is false the attempt ends as no-update, without
\* the confirmation call, without a call on the boot path or the next-boot
\* script, and with both as the attempt found them.
C10_NoUpdateEndsQuietly ==
    \A p \in Procs :
      LET r == proc[p] IN
      r.needs = "no" =>
        /\ Terminated(r) /\ r.outcome = "no-update"
        /\ ~Did(r, "confirm") /\ r.confirm = "unset"
        /\ ~TouchedBoot(r)
        /\ ~Did(r, "set_next_boot")
        /\ boot = r.boot0
        /\ nextboot = r.nextboot0

\* C10 witness: the installed versions equal the newest entry's targets and
\* the attempt ended as no-update.
C10_Witness ==
    \E p \in Procs :
      LET r == proc[p] IN
      /\ r.needs = "no"
      /\ r.changelog # << >>
      /\ r.bios = r.changelog[1].bios /\ r.ec = r.changelog[1].ec
      /\ r.outcome = "no-update"

\* ------------------------------------------- claims on the version gate

\* C11: needs_update is true exactly when the newest entry names a bios or
\* an ec target that differs from the installed version; a target it does
\* not name is skipped, and equal versions give false.
C11_NeedsUpdateIffNamedTargetDiffers ==
    gate.needs # "unset" =>
      LET newest == gate.entries[1]
          differs ==
            \/ newest.bios # Absent /\ newest.bios # gate.bios
            \/ newest.ec # Absent /\ newest.ec # gate.ec
      IN (gate.needs = "yes") <=> differs

\* C11 witness: the newest entry names no bios target, the installed bios
\* is some version, the ec versions agree, and the answer is false.
C11_Witness ==
    /\ gate.needs = "no"
    /\ gate.entries[1].bios = Absent
    /\ gate.bios = V201
    /\ gate.entries[1].ec = V202 /\ gate.ec = V202

\* The entries of the worked example: bios 2.02 then bios 2.01, no ec and
\* no ec2 target.
WalkExample ==
    << [bios |-> V202, ec |-> Absent, description |-> "A"],
       [bios |-> V201, ec |-> Absent, description |-> "B"] >>

\* C12 (as claimed): for the worked example with installed bios 2.01 and no
\* ec or ec2 version to compare, get_changes_list returns ["A"].
C12_WalkExampleGivesA ==
    ( /\ gate.entries = WalkExample
      /\ gate.bios = V201 /\ gate.ec = Absent /\ gate.ec2 = Absent
      /\ gate.listed )
    => gate.changes_list = << "A" >>

\* The installed version meets a target, or there is no target.
Met(target, installed) ==
    ~Truthy(target) \/ (Truthy(installed) /\ StrGE(installed, target))

\* Every target the newest entry names is met by the installed versions.
NewestTargetsMet ==
    LET newest == gate.entries[1] IN
    /\ Met(newest.bios, gate.bios)
    /\ Met(newest.ec, gate.ec)
    /\ HasEc2(newest) => Met(newest.ec2, gate.ec2)

\* C13 (as claimed): on an empty changelog, or one whose newest entry's
\* targets are all met by the installed versions, the result is
\* ["No Changes"]; stated for a machine that reports a bios and an ec
\* version.
C13_SatisfiedGivesNoChanges ==
    ( /\ gate.listed
      /\ Truthy(gate.bios) /\ Truthy(gate.ec)
      /\ (gate.entries = << >> \/ NewestTargetsMet) )
    => gate.changes_list = NoChanges

\* The newest entry names a bios and an ec target, both met by installed
\* versions, and an installed ec2 version, if any, meets an ec2 target the
\* entry names.
NewestNamedAndMet ==
    LET newest == gate.entries[1] IN
    /\ Truthy(newest.bios) /\ Truthy(gate.bios) /\ StrGE(gate.bios, newest.bios)
    /\ Truthy(newest.ec) /\ Truthy(gate.ec) /\ StrGE(gate.ec, newest.ec)
    /\ Truthy(gate.ec2) => (HasEc2(newest) /\ StrGE(gate.ec2, newest.ec2))

\* C13 (amended): on an empty changelog, or one whose newest entry names a
\* bios and an ec target that the installed versions meet (and an ec2
\* target the installed ec2 meets, when an ec2 version is installed), the
\* result is ["No Changes"].
C13_NamedAndMetGivesNoChanges ==
    (gate.listed /\ (gate.entries = << >> \/ NewestNamedAndMet))
    => gate.changes_list = NoChanges

\* C13 witness: a changelog of two entries, the installed versions newer
\* than the newest targets, and the sentinel returned.
C13_Witness ==
    /\ Len(gate.entries) = 2
    /\ NewestNamedAndMet
    /\ gate.bios # gate.entries[1].bios
    /\ gate.changes_list = NoChanges

\* C16 (as claimed): with no installed bios (or ec) version and the other
\* components at the newest entry's targets, nothing is pending.
C16_AbsentInstalledNeverPending ==
    ( /\ gate.listed
      /\ gate.entries # << >>
      /\ Truthy(gate.entries[1].bios) /\ Truthy(gate.entries[1].ec)
      /\ gate.ec2 = Absent
      /\ \/ gate.bios = Absent /\ gate.ec = gate.entries[1].ec
         \/ gate.ec = Absent /\ gate.bios = gate.entries[1].bios )
    => gate.changes_list = NoChanges


\* The cache file named n holds bytes whose digest is n: a blob that was
\* fetched and written, and that passes get_hashed_file's check.
CachedVerified(n) == cache[n] \in Blobs /\ sha384(cache[n]) = n

\* C14: once the cache holds a verified blob under its digest, the file is
\* never changed again, a get_file for that digest reads it from the cache
\* without going to the origin, and get_hashed_file hands those very bytes
\* back to its caller.
C14_CacheRoundTrip ==
    [][\A n \in Names : CachedVerified(n) =>
          /\ cache'[n] = cache[n]
          /\ \A p \in Procs :
                /\ (proc[p].pc = "get_file" /\ proc[p].want = n
                        /\ proc'[p] # proc[p])
                   => /\ proc'[p].pc = "check"
                      /\ proc'[p].data = cache[n]
                      /\ proc'[p].hist = Append(proc[p].hist,
                                                << "cache_hit", proc[p].site >>)
                /\ (proc[p].pc = "check" /\ proc[p].want = n
                        /\ proc[p].data = cache[n] /\ proc'[p] # proc[p])
                   => /\ proc'[p].pc = "returned"
                      /\ proc'[p].data = cache[n]]_vars

\* C14 witness: an attempt got the firmware archive back from the cache, the
\* bytes a previous attempt had fetched and written.
C14_Witness ==
    \E p \in Procs :
       LET r == proc[p] IN
       /\ r.pc = "returned" /\ r.site = "firmware"
       /\ r.cache0[r.want] = r.data
       /\ DidAt(r, "cache_hit", "firmware")
       /\ ~DidAt(r, "net_hashed", "firmware")


\* The errors loading the manifest can end in: the digest check failed, the
\* bytes could not be fetched, the bytes are not JSON.
ManifestErrors == {"Exception", "TypeError", "JSONDecodeError"}

\* C15: an attempt whose manifest failed the digest check, could not be
\* fetched or could not be parsed is from then on Failed with that error
\* recorded, and has not gone on to query the firmware id.
C15_ManifestFailureStopsAttempt ==
    \A p \in Procs :
       LET r == proc[p] IN
       \A e \in ManifestErrors :
          DidAt(r, e, "manifest")
          => /\ Terminated(r) /\ r.outcome = "failed" /\ r.exc = e
             /\ ~Did(r, "firmware_id")


\* The attempt got past loading the manifest.
PastManifestLoading(r) == r.pc = "get_firmware_id" \/ Did(r, "firmware_id")

\* C17: an attempt past loading the manifest began, itself, by fetching the
\* pointer from the origin and verifying it against the pinned key, whatever
\* the cache held when it started; and up to the verification the cache
\* directory is as the attempt found it.
C17_PointerFetchedEachAttempt ==
    \A p \in Procs :
       LET r == proc[p] IN
       /\ r.pc \in {"get_signed_file", "verify"} => cache = r.cache0
       /\ PastManifestLoading(r)
          => /\ Len(r.hist) >= 2
             /\ r.hist[1] = << "net_pointer", "" >>
             /\ r.hist[2] = << "verified", "" >>
             /\ r.signed_file # NoResponse
             /\ r.signed_file.signer = PinnedKey

\* C17 witness: an attempt that found the manifest already in the cache,
\* left there by an earlier attempt, and is past loading it.
C17_Witness ==
    \E p \in Procs :
       LET r == proc[p] IN
       /\ Did(r, "firmware_id")
       /\ r.signed_file # NoResponse
       /\ r.cache0[r.signed_file.payload] # NoFile
       /\ DidAt(r, "cache_hit", "manifest")


\* C18: no attempt has written a file outside the directory it extracted an
\* archive to, and no archive with an escaping member has been extracted.
C18_ExtractionStaysInside ==
    \A p \in Procs :
       LET r == proc[p] IN
       /\ ~r.outside
       /\ Did(r, "firmware_extracted") => ~Escapes(r.firmware)


\* Both attempts are between the call of rmtree and the return of copytree
\* on the boot-partition install directory.
BothInRemoveThenCopy == \A p \in Procs : proc[p].pc \in {"rmtree", "copytree"}

\* C19: nothing serialises overlapping attempts: whatever one attempt is
\* doing, the other can start, and can take its next step.
C19_NothingSerialises == \A p \in Procs : ENABLED (Start(p) \/ Step(p))

\* C19 witness: both attempts are inside the remove-then-copy at once, and
\* one of the two processes has read a cache file the other had created but
\* not yet written.
C19_Witness ==
    /\ BothInRemoveThenCopy
    /\ \E p \in Procs : proc[p].torn


\* The call of get_hashed_file under way in r found, in the cache, a file
\* that an earlier attempt left there.
HitEarlierFile(r) ==
    /\ r.pc = "check"
    /\ r.hist[Len(r.hist)] = << "cache_hit", r.site >>
    /\ r.cache0[r.want] # NoFile

\* C20: a get_hashed_file(D) that comes after an earlier attempt's fetch of
\* D, failed or not, and for a D the origin has bytes for, gets bytes that
\* hash to D: what a failed fetch left behind does not make it fail.
C20_FailedFetchDoesNotPoison ==
    \A p \in Procs :
       LET r == proc[p] IN
       (HitEarlierFile(r) /\ \E b \in Blobs : sha384(b) = r.want)
       => sha384(r.data) = r.want


\* C21: when needs_update is true for the newest entry, the list that
\* get_changes_list builds from the same changelog and installed bios and ec
\* versions (no ec2 version is passed by _run_firmware_updater) holds the
\* newest entry's description and is not the sentinel ["No Changes"].
C21_GateAndChangesAgree ==
    (gate.needs = "yes" /\ gate.listed /\ gate.ec2 = Absent)
    => /\ gate.changes_list # NoChanges
       /\ \E i \in DOMAIN gate.changes_list :
             gate.changes_list[i] = gate.entries[1].description

====
